---- MODULE Spec2Model ----
(***************************************************************************)
(* Grade upsert and duplicate resolution of Plataforma-calificaciones.     *)
(*                                                                         *)
(* The store is one relational database holding the tables materias,       *)
(* estudiantes and calificaciones (src/app.py:102-217).  A table is a set  *)
(* of rows; a SELECT without ORDER BY returns its rows in an order the     *)
(* engine chooses, so "the first row" is any matching row.  The schema     *)
(* declares calificaciones.user_id and calificaciones.materia as foreign   *)
(* keys; whether they are enforced depends on the engine the deployment    *)
(* runs on (Postgres enforces them, SQLite does not unless it is built or  *)
(* told to), so enforcement is fixed per deployment and unknown here.      *)
(* What a failed INSERT does to the id sequence is left out: ids are only  *)
(* required to be fresh and increasing.                                    *)
(* Every db_query call of src/app.py opens its own connection and commits  *)
(* on its own, so a handler that issues several statements is one step per *)
(* statement; other requests may run between two steps.                    *)
(***************************************************************************)
EXTENDS Integers, FiniteSets, Sequences, TLC

\* ---------------------------------------------------------------- bounds
MaxCalId == 3      \* cap on the id sequence of calificaciones
MaxMatId == 10     \* cap on the id sequence of materias
MaxEstId == 4      \* cap on the id sequence of estudiantes

\* The requests that can be in flight at the same time.
Procs == {1, 2}
\* The request that runs when requests run one at a time.
Serial == {1}
\* The students (ids of estudiantes) and what a form's alumno_id carries.
AlumnoIds == {1, 2}
\* What a form's materia_id carries.
FormMaterias == {3}
\* The course ids a deleting request can name: the course the forms grade and
\* the row that shares its identity.
IdsMateria == {3, 4}
\* Numeric scores.
Scores == {80, 95}

\* A form field that does not parse as a number ('abc').
NotNumeric == -1
\* What request.form.get('calificacion') can carry.
FormScores == Scores \cup {NotNumeric}

\* "no row" (ids start at 1)
None == 0

VARIABLES
    materias,        \* table materias: rows [id, nombre, licenciatura, semestre]
    estudiantes,     \* table estudiantes: rows [id, nombre, matricula, licenciatura, semestre]
    calificaciones,  \* table calificaciones: rows [id, user_id, materia, calificacion]
    seqCal,          \* last value handed out by the id sequence of calificaciones
    pc,              \* pc[p]: position of request p inside its handler
    loc,             \* loc[p]: local variables of request p
    gdb,             \* gdb[p]: g.db of materias_util in the context of request p
    foreign_keys,    \* whether the engine enforces the declared foreign keys
    event,           \* what the last step that wrote or returned did (history)
    seqMat,          \* last value handed out by the id sequence of materias
    seqEst,          \* last value handed out by the id sequence of estudiantes
    matricula_unique,\* whether estudiantes.matricula carries UNIQUE in this deployment
    cuentas,         \* tables maestros and administrativos: rows [tabla, id, usuario, contrasena]
    seqCuenta,       \* last value handed out by the id sequences of the account tables
    sesion           \* the session cookie of the one client: [usuario_tipo, user_id]

vars == <<materias, estudiantes, calificaciones, seqCal, pc, loc, gdb, foreign_keys, event,
          seqMat, seqEst, matricula_unique, cuentas, seqCuenta, sesion>>

\* What the grade handlers never write: the schema of the deployment, the id
\* sequences of the other tables, the accounts and the session.
resto == <<foreign_keys, seqMat, seqEst, matricula_unique, cuentas, seqCuenta, sesion>>

\* ---------------------------------------------------------------- rows
Materia(i, s) == [id |-> i, nombre |-> "Mat", licenciatura |-> "Civil", semestre |-> s]

NombreDe(i) == IF i = 1 THEN "Ana" ELSE "Eva"

Estudiante(i) ==
    [id |-> i, nombre |-> NombreDe(i), matricula |-> i,
     licenciatura |-> "Civil", semestre |-> 1]

Calificacion(i, u, m, c) == [id |-> i, user_id |-> u, materia |-> m, calificacion |-> c]

\* A row of maestros or of administrativos; contrasena stands for the hash of
\* the password of that name.
Cuenta(t, i, u, c) == [tabla |-> t, id |-> i, usuario |-> u, contrasena |-> c]

\* The two account tables, each with its own id sequence.
Tablas == {"maestros", "administrativos"}

\* werkzeug's generate_password_hash and check_password_hash: the stored value
\* is not the password, and a password matches the hash made from it only.
generate_password_hash(c) == <<"hash", c>>

check_password_hash(h, c) == h = generate_password_hash(c)

\* session.clear(): no key is set.
NoSesion == [usuario_tipo |-> "none", user_id |-> 0]

Nombres == {NombreDe(i) : i \in AlumnoIds}

\* ---------------------------------------------------------------- SQL
\* SELECT id FROM calificaciones WHERE user_id = %s AND materia = %s
SelectCalificacion(T, u, m) == {r \in T : r.user_id = u /\ r.materia = m}

\* db_query(..., one=True) returns rows[0] if rows else rows; fetchone() of
\* materias_util likewise.  The statements have no ORDER BY, so the first row
\* is any matching row; None stands for "no row".
OneOf(rows) == IF rows = {} THEN {None} ELSE {r.id : r \in rows}

\* The cast of a form string to the numeric column calificacion.
IsNumeric(v) == v >= 0

\* A faulty UPDATE that names the pair of row i instead of its id:
\* UPDATE calificaciones SET calificacion = %s WHERE user_id = %s AND materia = %s
UpdateCalificacionPorPar(T, i, c) ==
    {IF \E x \in T : x.id = i /\ x.user_id = r.user_id /\ x.materia = r.materia
     THEN [r EXCEPT !.calificacion = c] ELSE r : r \in T}

\* UPDATE calificaciones SET calificacion = %s WHERE id = %s
UpdateCalificacion(T, i, c) ==
    {IF r.id = i THEN [r EXCEPT !.calificacion = c] ELSE r : r \in T}

\* A faulty INSERT whose parameters are bound in the wrong order:
\* VALUES (materia_id, alumno_id, calificacion)
InsertCalificacionCruzado(T, i, u, m, c) == T \cup {Calificacion(i, m, u, c)}

\* A faulty INSERT that takes the place of the rows of the pair (REPLACE INTO).
InsertCalificacionReplace(T, i, u, m, c) ==
    {r \in T : ~ (r.user_id = u /\ r.materia = m)} \cup {Calificacion(i, u, m, c)}

\* INSERT INTO calificaciones (user_id, materia, calificacion) VALUES (%s, %s, %s)
InsertCalificacion(T, i, u, m, c) == T \cup {Calificacion(i, u, m, c)}

\* FOREIGN KEY(user_id) REFERENCES estudiantes(id),
\* FOREIGN KEY(materia) REFERENCES materias(id): what an INSERT of a grade row
\* for (u, m) needs when the engine enforces the keys (fk).
References(fk, M, E, u, m) ==
    fk => /\ \E e \in E : e.id = u
          /\ \E x \in M : x.id = m

\* ON DELETE is not given (NO ACTION): a DELETE that would remove a course row
\* a grade row references raises when the engine enforces the keys (fk).
Referenced(fk, C, rows) == fk /\ \E r \in rows : \E c \in C : c.materia = r.id

\* A schema whose key says ON DELETE CASCADE: the grade rows that reference
\* a removed course row go with it.
OnDeleteCascade(C, rows) == {c \in C : ~ \E r \in rows : c.materia = r.id}

\* What a DELETE of course rows that goes through does to the grade rows under
\* the declared key (no ON DELETE clause) or under no key at all: nothing.
OnDelete(C, rows) == C

\* A faulty upsert that replaces the row it found: DELETE ... WHERE id =
\* registro_id, then INSERT, so the grade gets a new id.
UpsertReemplaza(T, seq, reg, u, m, c, refs) ==
    IF ~ IsNumeric(c)
    THEN [cal |-> T, seq |-> seq, outcome |-> "Error"]
    ELSE IF reg # None
    THEN [cal |-> InsertCalificacion({r \in T : r.id # reg}, seq + 1, u, m, c),
          seq |-> seq + 1, outcome |-> "Updated"]
    ELSE IF ~ refs
    THEN [cal |-> T, seq |-> seq, outcome |-> "Error"]
    ELSE [cal |-> InsertCalificacion(T, seq + 1, u, m, c), seq |-> seq + 1,
          outcome |-> "Inserted"]

\* An upsert whose write looks at the table again (INSERT ... ON CONFLICT
\* (user_id, materia) DO UPDATE): it inserts only when the pair still has no row.
UpsertAtomico(T, seq, reg, u, m, c, refs) ==
    IF ~ IsNumeric(c)
    THEN [cal |-> T, seq |-> seq, outcome |-> "Error"]
    ELSE IF reg # None
    THEN [cal |-> UpdateCalificacion(T, reg, c), seq |-> seq, outcome |-> "Updated"]
    ELSE IF SelectCalificacion(T, u, m) # {}
    THEN [cal |-> {IF r \in SelectCalificacion(T, u, m)
                   THEN [r EXCEPT !.calificacion = c] ELSE r : r \in T},
          seq |-> seq, outcome |-> "Updated"]
    ELSE IF ~ refs
    THEN [cal |-> T, seq |-> seq, outcome |-> "Error"]
    ELSE [cal |-> InsertCalificacion(T, seq + 1, u, m, c), seq |-> seq + 1,
          outcome |-> "Inserted"]

\* A faulty upsert on a column without a type: a score that is not a number is
\* stored as 0 before the error is raised.
UpsertSinTipo(T, seq, reg, u, m, c, refs) ==
    IF ~ IsNumeric(c)
    THEN IF reg # None
         THEN [cal |-> UpdateCalificacion(T, reg, 0), seq |-> seq, outcome |-> "Error"]
         ELSE [cal |-> InsertCalificacion(T, seq + 1, u, m, 0), seq |-> seq + 1,
               outcome |-> "Error"]
    ELSE IF reg # None
    THEN [cal |-> UpdateCalificacion(T, reg, c), seq |-> seq, outcome |-> "Updated"]
    ELSE IF ~ refs
    THEN [cal |-> T, seq |-> seq, outcome |-> "Error"]
    ELSE [cal |-> InsertCalificacion(T, seq + 1, u, m, c), seq |-> seq + 1,
          outcome |-> "Inserted"]

\* A faulty upsert whose two messages are swapped between the branches.
UpsertMensajesCruzados(T, seq, reg, u, m, c, refs) ==
    IF ~ IsNumeric(c)
    THEN [cal |-> T, seq |-> seq, outcome |-> "Error"]
    ELSE IF reg # None
    THEN [cal |-> UpdateCalificacion(T, reg, c), seq |-> seq, outcome |-> "Inserted"]
    ELSE IF ~ refs
    THEN [cal |-> T, seq |-> seq, outcome |-> "Error"]
    ELSE [cal |-> InsertCalificacion(T, seq + 1, u, m, c), seq |-> seq + 1,
          outcome |-> "Updated"]

\* if registro: UPDATE ... WHERE id = registro_id  else: INSERT ...
\* A score that is not a number makes the statement raise, and so does an
\* INSERT that breaks an enforced foreign key (refs): nothing is written.
Upsert(T, seq, reg, u, m, c, refs) ==
    IF ~ IsNumeric(c)
    THEN [cal |-> T, seq |-> seq, outcome |-> "Error"]
    ELSE IF reg # None
    THEN [cal |-> UpdateCalificacion(T, reg, c), seq |-> seq, outcome |-> "Updated"]
    ELSE IF ~ refs
    THEN [cal |-> T, seq |-> seq, outcome |-> "Error"]
    ELSE [cal |-> InsertCalificacion(T, seq + 1, u, m, c), seq |-> seq + 1,
          outcome |-> "Inserted"]

\* SELECT id FROM estudiantes WHERE nombre = %s AND licenciatura = %s AND semestre = %s
SelectAlumno(E, n, l, s) ==
    {r \in E : r.nombre = n /\ r.licenciatura = l /\ r.semestre = s}

\* A faulty numbering of the grade rows that counts from the newest row.
RnCalificacionDesc(T, r) ==
    Cardinality({x \in T : x.user_id = r.user_id /\ x.materia = r.materia /\ x.id >= r.id})

\* ROW_NUMBER() OVER (PARTITION BY user_id, materia ORDER BY id)
RnCalificacion(T, r) ==
    Cardinality({x \in T : x.user_id = r.user_id /\ x.materia = r.materia /\ x.id <= r.id})

\* A faulty numbering that counts from the newest row (ORDER BY id DESC).
RnMateriaDesc(T, r) ==
    Cardinality({x \in T : x.nombre = r.nombre /\ x.licenciatura = r.licenciatura
                           /\ x.semestre = r.semestre /\ x.id >= r.id})

\* ROW_NUMBER() OVER (PARTITION BY nombre, licenciatura, semestre ORDER BY id)
RnMateria(T, r) ==
    Cardinality({x \in T : x.nombre = r.nombre /\ x.licenciatura = r.licenciatura
                           /\ x.semestre = r.semestre /\ x.id <= r.id})

\* A faulty resolver that carries the highest score of the removed rows over
\* to the row it keeps.
SinCalificacionesDuplicadasFusion(T) ==
    {[r EXCEPT !.calificacion =
         CHOOSE c \in {x.calificacion : x \in {y \in T : y.user_id = r.user_id
                                                          /\ y.materia = r.materia}} :
            \A x \in T : (x.user_id = r.user_id /\ x.materia = r.materia)
                             => x.calificacion <= c]
       : r \in {x \in T : ~ (RnCalificacion(T, x) > 1)}}

\* DELETE FROM calificaciones WHERE id IN (SELECT id FROM cte WHERE rn > 1)
SinCalificacionesDuplicadas(T) == {r \in T : ~ (RnCalificacion(T, r) > 1)}

\* A faulty resolver that removes the second row of a group only (rn = 2).
SinMateriasDuplicadasSegunda(T) == {r \in T : ~ (RnMateria(T, r) = 2)}

\* DELETE FROM materias WHERE id IN (SELECT id FROM cte WHERE rn > 1)
SinMateriasDuplicadas(T) == {r \in T : ~ (RnMateria(T, r) > 1)}

\* db_query(query, params=None, one=False, commit=False): the signature has no
\* parameter `many`, so a call that passes many=True raises TypeError before
\* any statement runs.
db_query(rows, many) ==
    IF many THEN [outcome |-> "TypeError", rows |-> {}]
            ELSE [outcome |-> "Done", rows |-> rows]

\* WITH cte AS (SELECT id, ROW_NUMBER() OVER (PARTITION BY user_id, materia
\* ORDER BY id) AS rn FROM calificaciones) SELECT id FROM cte WHERE rn > 1
IdsDuplicados(C) == {r.id : r \in {x \in C : RnCalificacion(C, x) > 1}}

\* SELECT c.id, ... FROM calificaciones c JOIN materias m ON c.materia = m.id
\* JOIN estudiantes e ON c.user_id = e.id WHERE c.id IN (ids)
CalificacionesDuplicadas(C, M, E, ids) ==
    {c.id : c \in {x \in C : /\ x.id \in ids
                             /\ \E m \in M : x.materia = m.id
                             /\ \E e \in E : x.user_id = e.id}}

\* SELECT MIN(id) FROM materias GROUP BY nombre, licenciatura, semestre
MinIds(M) ==
    {r.id : r \in {x \in M : \A y \in M :
                      (y.nombre = x.nombre /\ y.licenciatura = x.licenciatura
                       /\ y.semestre = x.semestre) => x.id <= y.id}}

\* SELECT id, nombre, licenciatura, semestre FROM materias WHERE id NOT IN (MinIds)
MateriasDuplicadas(M) == {r.id : r \in {x \in M : x.id \notin MinIds(M)}}

\* ---------------------------------------------------------------- history
NoEvent ==
    [op |-> "none", user_id |-> 0, materia |-> 0, calificacion |-> 0,
     outcome |-> "none", registro |-> 0, npre |-> 0, ntot |-> 0,
     gone |-> {}, prevGone |-> -1, rows |-> {},
     mensaje |-> "none", cuenta |-> -1, ids |-> {}, sin_cerrar |-> 0]

\* The number of rows the step before removed when that step was a completed
\* run of the resolver op, and -1 when it was anything else.
PrevGone(op) ==
    IF event.op = op /\ event.outcome = "Done" THEN Cardinality(event.gone) ELSE -1

NoLoc ==
    [user_id |-> 0, materia |-> 0, calificacion |-> 0, registro |-> 0, dice |-> FALSE,
     matricula |-> 0, nombre |-> "", semestre |-> 0, ids |-> {}, grupos |-> {}]

\* The return of an upsert as the history records it: the arguments, the row
\* the lookup found (registro), the branch taken (outcome), the number of
\* rows of the pair (npre) and of the table (ntot) when the write statement
\* started, and what the caller is told about the branch (mensaje): the
\* handlers that build a message per branch (dice) tell it, the others return
\* the same thing on both branches.
UpsertEvent(T, u, m, c, reg, out, dice) ==
    [NoEvent EXCEPT !.op = "recordGrade", !.user_id = u, !.materia = m,
                    !.calificacion = c, !.outcome = out, !.registro = reg,
                    !.npre = Cardinality(SelectCalificacion(T, u, m)),
                    !.ntot = Cardinality(T),
                    !.mensaje = IF dice THEN out ELSE "none"]

\* The return of an upsert whose statement raised: the caller gets the error
\* (a message, a 500 response or the exception).  db_query closes its
\* connection after the statement only, so a statement that raises leaves the
\* connection open (fuga); materias_util closes in a finally clause.
Failed(fuga) ==
    [NoEvent EXCEPT !.op = "recordGrade", !.outcome = "Error", !.mensaje = "Error",
                    !.sin_cerrar = IF fuga THEN 1 ELSE 0]

\* ---------------------------------------------------------------- Init
\* The catalogue when the first request arrives.  Either three rows of one
\* course identity (ids 1, 3, 4) with another course (id 2) created between
\* them, or two rows of one identity while the rows 1 and 2 are gone: rows are
\* added twice by add_materia races or by re-running init_db.py, and removed by
\* eliminar_materia.  Student 1 is registered, student 2 is not (or no
\* longer); no grade has been recorded.  The table estudiantes has been
\* created by inicializar_tablas_minimas (matricula UNIQUE) or by init_db.py
\* (no UNIQUE), whichever ran first.  One administrative account exists and
\* nobody is logged in.
CatalogoA == {Materia(1, 1), Materia(2, 2), Materia(3, 1), Materia(4, 1)}

CatalogoB == {Materia(3, 2), Materia(4, 2)}

InitMaterias == {CatalogoA, CatalogoB}

Init ==
    /\ materias \in InitMaterias
    /\ estudiantes = {Estudiante(1)}
    /\ calificaciones = {}
    /\ seqCal = 0
    /\ pc = [p \in Procs |-> "idle"]
    /\ loc = [p \in Procs |-> NoLoc]
    /\ gdb = [p \in Procs |-> "absent"]
    /\ foreign_keys \in BOOLEAN
    /\ event = NoEvent
    /\ seqMat = 4
    /\ seqEst = 2
    /\ matricula_unique \in BOOLEAN
    /\ cuentas = {Cuenta("administrativos", 1, "root", generate_password_hash("pw"))}
    /\ seqCuenta = [t \in Tablas |-> IF t = "administrativos" THEN 1 ELSE 0]
    /\ sesion = NoSesion

\* ---------------------------------------------------------------- recordGrade
\* The lookup, then the write, of an upsert handler with nothing in between.
UpsertCall(u, m, c, dice, fuga) ==
    \E reg \in OneOf(SelectCalificacion(calificaciones, u, m)) :
       LET r == Upsert(calificaciones, seqCal, reg, u, m, c,
                       References(foreign_keys, materias, estudiantes, u, m)) IN
       /\ r.seq <= MaxCalId
       /\ calificaciones' = r.cal
       /\ seqCal' = r.seq
       /\ event' = IF r.outcome = "Error" THEN Failed(fuga)
                   ELSE UpsertEvent(calificaciones, u, m, c, reg, r.outcome, dice)
       /\ UNCHANGED <<materias, estudiantes, pc, loc, resto>>

\* POST /guardar-calificacion
guardar_calificacion ==
    /\ \E u \in AlumnoIds, m \in FormMaterias, c \in FormScores :
          UpsertCall(u, m, c, TRUE, TRUE)
    /\ UNCHANGED gdb

\* POST /registrar-calificacion
registrar_calificacion ==
    /\ \E u \in AlumnoIds, m \in FormMaterias, c \in FormScores :
          UpsertCall(u, m, c, TRUE, TRUE)
    /\ UNCHANGED gdb

\* POST /update_calificacion: the student is looked up by name first.
update_calificacion ==
    /\ \E n \in Nombres, m \in FormMaterias, c \in FormScores :
       \E alumno \in OneOf(SelectAlumno(estudiantes, n, "Civil", 1)) :
          IF alumno = None
          THEN /\ event' = [NoEvent EXCEPT !.op = "recordGrade", !.outcome = "NotFound"]
               /\ UNCHANGED <<materias, estudiantes, calificaciones, seqCal, pc, loc,
                               resto>>
          ELSE UpsertCall(alumno, m, c, FALSE, TRUE)
    /\ UNCHANGED gdb

\* materias_util.actualizar_calificacion(user_id, materia_id, nueva_calificacion)
\* in request context p.  get_db_connection() hands back g.db when the context
\* has one, open or not; a statement on a closed connection raises, and so does
\* the rollback of the except clause.  The finally clause closes the
\* connection and leaves it in g.
actualizar_calificacion(p) ==
    \/ /\ gdb[p] = "closed"
       /\ event' = Failed(FALSE)
       /\ UNCHANGED <<materias, estudiantes, calificaciones, seqCal, pc, loc, gdb,
                       resto>>
    \/ /\ gdb[p] = "absent"
       /\ \E u \in AlumnoIds, m \in FormMaterias, c \in Scores :
             UpsertCall(u, m, c, FALSE, FALSE)
       /\ gdb' = [gdb EXCEPT ![p] = "closed"]

\* @app.teardown_appcontext close_db_connection: g.pop('db') and close it.
close_db_connection(p) ==
    /\ pc[p] = "idle"
    /\ gdb[p] # "absent"
    /\ gdb' = [gdb EXCEPT ![p] = "absent"]
    /\ UNCHANGED <<materias, estudiantes, calificaciones, seqCal, pc, loc, resto, event>>

\* POST /add_calificacion: a plain INSERT for the user of the session.
add_calificacion ==
    \E u \in AlumnoIds, m \in FormMaterias, c \in FormScores :
       /\ IF IsNumeric(c) /\ References(foreign_keys, materias, estudiantes, u, m)
          THEN /\ seqCal < MaxCalId
               /\ seqCal' = seqCal + 1
               /\ calificaciones' = InsertCalificacion(calificaciones, seqCal + 1, u, m, c)
               /\ event' = [NoEvent EXCEPT !.op = "add_calificacion", !.user_id = u,
                                           !.materia = m, !.calificacion = c,
                                           !.outcome = "Inserted"]
          ELSE /\ event' = [NoEvent EXCEPT !.op = "add_calificacion", !.outcome = "Error",
                                           !.mensaje = "Error", !.sin_cerrar = 1]
               /\ UNCHANGED <<calificaciones, seqCal>>
       /\ UNCHANGED <<materias, estudiantes, pc, loc, gdb, resto>>

\* ---------------------------------------------------------------- resolveDuplicates
\* materias_util.eliminar_calificaciones_duplicadas() in request context p: one
\* DELETE statement, committed.
eliminar_calificaciones_duplicadas(p) ==
    /\ IF gdb[p] = "closed"
       THEN /\ event' = [NoEvent EXCEPT !.op = "eliminar_calificaciones_duplicadas",
                                        !.outcome = "Error",
                                        !.prevGone = PrevGone("eliminar_calificaciones_duplicadas")]
            /\ UNCHANGED <<calificaciones, gdb>>
       ELSE /\ calificaciones' = SinCalificacionesDuplicadas(calificaciones)
            /\ event' = [NoEvent EXCEPT !.op = "eliminar_calificaciones_duplicadas",
                                        !.outcome = "Done",
                                        !.prevGone = PrevGone("eliminar_calificaciones_duplicadas"),
                                        !.gone = calificaciones
                                                   \ SinCalificacionesDuplicadas(calificaciones)]
            /\ gdb' = [gdb EXCEPT ![p] = "closed"]
    /\ UNCHANGED <<materias, estudiantes, seqCal, pc, loc, resto>>

\* materias_util.eliminar_materias_duplicadas() in request context p
eliminar_materias_duplicadas(p) ==
    /\ IF gdb[p] = "closed"
          \/ Referenced(foreign_keys, calificaciones,
                        materias \ SinMateriasDuplicadas(materias))
       THEN /\ event' = [NoEvent EXCEPT !.op = "eliminar_materias_duplicadas",
                                        !.outcome = "Error",
                                        !.prevGone = PrevGone("eliminar_materias_duplicadas")]
            /\ UNCHANGED <<materias, calificaciones>>
            /\ gdb' = [gdb EXCEPT ![p] = "closed"]
       ELSE /\ materias' = SinMateriasDuplicadas(materias)
            /\ calificaciones' = OnDelete(calificaciones,
                                          materias \ SinMateriasDuplicadas(materias))
            /\ event' = [NoEvent EXCEPT !.op = "eliminar_materias_duplicadas",
                                        !.outcome = "Done",
                                        !.prevGone = PrevGone("eliminar_materias_duplicadas"),
                                        !.gone = materias \ SinMateriasDuplicadas(materias)]
            /\ gdb' = [gdb EXCEPT ![p] = "closed"]
    /\ UNCHANGED <<estudiantes, seqCal, pc, loc, resto>>

\* ---------------------------------------------------------------- listDuplicateGroups
\* GET /eliminar_duplicados
eliminar_duplicados_GET ==
    LET ids == db_query(IdsDuplicados(calificaciones), TRUE)
        res == IF ids.outcome # "Done" \/ ids.rows = {} THEN ids
               ELSE db_query(CalificacionesDuplicadas(calificaciones, materias,
                                                      estudiantes, ids.rows), TRUE)
    IN /\ event' = [NoEvent EXCEPT !.op = "eliminar_duplicados_GET",
                                   !.outcome = res.outcome, !.rows = res.rows]
       /\ UNCHANGED <<materias, estudiantes, calificaciones, seqCal, pc, loc, gdb,
                       resto>>

\* GET /gestionar_materias
gestionar_materias_view_GET ==
    LET res == db_query(MateriasDuplicadas(materias), TRUE)
    IN /\ event' = [NoEvent EXCEPT !.op = "gestionar_materias_view_GET",
                                   !.outcome = res.outcome, !.rows = res.rows]
       /\ UNCHANGED <<materias, estudiantes, calificaciones, seqCal, pc, loc, gdb,
                       resto>>

\* GET /gestion_materias
gestion_materias ==
    LET res == db_query(MateriasDuplicadas(materias), TRUE)
    IN /\ event' = [NoEvent EXCEPT !.op = "gestion_materias",
                                   !.outcome = res.outcome, !.rows = res.rows]
       /\ UNCHANGED <<materias, estudiantes, calificaciones, seqCal, pc, loc, gdb,
                       resto>>

\* ---------------------------------------------------------------- specification
\* Requests run one at a time: every handler runs from its first statement to
\* its return before the next request starts.
Next ==
    \/ guardar_calificacion
    \/ registrar_calificacion
    \/ update_calificacion
    \/ \E p \in Serial : actualizar_calificacion(p)
    \/ \E p \in Serial : close_db_connection(p)
    \/ add_calificacion
    \/ \E p \in Serial : eliminar_calificaciones_duplicadas(p)
    \/ \E p \in Serial : eliminar_materias_duplicadas(p)
    \/ eliminar_duplicados_GET
    \/ gestionar_materias_view_GET
    \/ gestion_materias

Spec == Init /\ [][Next]_vars

\* ---------------------------------------------------------------- other writers
\* The outcome of a handler that does not write grades through the upsert.
Evento(op, outcome) == [NoEvent EXCEPT !.op = op, !.outcome = outcome]

\* The outcome of a db_query statement that raised: nothing is committed and
\* the connection db_query opened stays open.
Raised(op) ==
    [NoEvent EXCEPT !.op = op, !.outcome = "Error", !.mensaje = "Error", !.sin_cerrar = 1]

\* A faulty removal that keeps the grades of the course and clears their score.
CalificacionesDeMateriaEnCero(T, m) ==
    {IF r.materia = m THEN [r EXCEPT !.calificacion = 0] ELSE r : r \in T}

\* DELETE FROM calificaciones WHERE materia = %s
SinCalificacionesDeMateria(T, m) == {r \in T : r.materia # m}

\* A faulty deletion by list that takes the ids as a range: every row up to
\* the largest id of the list goes (DELETE ... WHERE id <= %s).
SinIdsHastaElMayor(T, ids) == {r \in T : \A i \in ids : r.id > i}

\* DELETE FROM <table> WHERE id = %s, once for every id of the list
SinIds(T, ids) == {r \in T : r.id \notin ids}

\* POST /editar_calificacion/<calificacion_id>: UPDATE ... WHERE id, whether the
\* id matches a row or not.
editar_calificacion_POST ==
    \E i \in 1..MaxCalId, c \in FormScores :
       /\ IF IsNumeric(c)
          THEN /\ calificaciones' = UpdateCalificacion(calificaciones, i, c)
               /\ event' = [Evento("editar_calificacion", "Done")
                               EXCEPT !.registro = i, !.calificacion = c,
                                      !.mensaje = "Updated"]
          ELSE /\ event' = Raised("editar_calificacion")
               /\ UNCHANGED calificaciones
       /\ UNCHANGED <<materias, estudiantes, seqCal, pc, loc, gdb, resto>>

\* inicializar_materias_para_alumno(alumno_id, licenciatura, semestre): the
\* courses of the term are read with db_query(..., many=True) before any INSERT.
inicializar_materias_para_alumno ==
    LET res == db_query({r.id : r \in materias}, TRUE)
    IN IF res.outcome = "Done"
       THEN /\ seqCal + Cardinality(res.rows) <= MaxCalId
            /\ \E f \in [res.rows -> (seqCal + 1)..(seqCal + Cardinality(res.rows))] :
                  /\ \A x, y \in res.rows : f[x] = f[y] => x = y
                  /\ \E u \in AlumnoIds :
                        calificaciones' = calificaciones
                              \cup {Calificacion(f[m], u, m, 0) : m \in res.rows}
            /\ seqCal' = seqCal + Cardinality(res.rows)
            /\ event' = Evento("inicializar_materias_para_alumno", "Done")
            /\ UNCHANGED <<materias, estudiantes, pc, loc, gdb, resto>>
       ELSE /\ event' = Evento("inicializar_materias_para_alumno", res.outcome)
            /\ UNCHANGED <<materias, estudiantes, calificaciones, seqCal, pc, loc, gdb,
                           resto>>

\* POST /delete_materia: DELETE FROM materias, commit, DELETE FROM
\* calificaciones, commit, with no other request in between.
delete_materia ==
    \E id \in IdsMateria \cup {None} :
       /\ IF id = None
          THEN /\ event' = [Evento("delete_materia", "Rejected") EXCEPT !.mensaje = "Error"]
               /\ UNCHANGED <<materias, calificaciones>>
          ELSE IF Referenced(foreign_keys, calificaciones, {r \in materias : r.id = id})
          THEN /\ event' = Raised("delete_materia")
               /\ UNCHANGED <<materias, calificaciones>>
          ELSE /\ materias' = SinIds(materias, {id})
               /\ calificaciones' = SinCalificacionesDeMateria(calificaciones, id)
               /\ event' = [Evento("delete_materia", "Done")
                               EXCEPT !.ids = {id}, !.gone = materias \ SinIds(materias, {id})]
       /\ UNCHANGED <<estudiantes, seqCal, pc, loc, gdb, resto>>

\* POST /eliminar_materia/<materia_id>
eliminar_materia ==
    \E id \in IdsMateria :
       /\ IF Referenced(foreign_keys, calificaciones, {r \in materias : r.id = id})
          THEN /\ event' = Raised("eliminar_materia")
               /\ UNCHANGED <<materias, calificaciones>>
          ELSE /\ materias' = SinIds(materias, {id})
               /\ calificaciones' = OnDelete(calificaciones, materias \ SinIds(materias, {id}))
               /\ event' = [Evento("eliminar_materia", "Done")
                               EXCEPT !.ids = {id}, !.gone = materias \ SinIds(materias, {id})]
       /\ UNCHANGED <<estudiantes, seqCal, pc, loc, gdb, resto>>

\* ---------------------------------------------------------------- selective deletion
\* POST /eliminar_duplicados with the ids of request.form.getlist('duplicados'):
\* one committed DELETE per id, then a message with the length of the list.
eliminar_duplicados_POST ==
    \E ids \in SUBSET (1..MaxCalId) :
       /\ IF ids = {}
          THEN /\ event' = [Evento("eliminar_duplicados_POST", "Rejected")
                               EXCEPT !.mensaje = "Error"]
               /\ UNCHANGED calificaciones
          ELSE /\ calificaciones' = SinIds(calificaciones, ids)
               /\ event' = [Evento("eliminar_duplicados_POST", "Done")
                               EXCEPT !.ids = ids, !.cuenta = Cardinality(ids),
                                      !.gone = calificaciones \ SinIds(calificaciones, ids)]
       /\ UNCHANGED <<materias, estudiantes, seqCal, pc, loc, gdb, resto>>

\* POST /gestionar_materias with the ids of getlist('materias_eliminar'): one
\* committed DELETE per id, in the order of the list.  A DELETE that breaks an
\* enforced foreign key raises and ends the request: the rows named before it
\* in the list are gone, the others are not.
gestionar_materias_view_POST ==
    \E ids \in SUBSET IdsMateria :
       LET nombradas == {r \in materias : r.id \in ids}
           atadas == {r \in nombradas : Referenced(foreign_keys, calificaciones, {r})}
       IN /\ IF atadas # {}
             THEN \E antes \in SUBSET (nombradas \ atadas) :
                     /\ materias' = materias \ antes
                     /\ calificaciones' = OnDelete(calificaciones, antes)
                     /\ event' = [Raised("gestionar_materias_view_POST")
                                     EXCEPT !.ids = ids, !.gone = antes]
             ELSE /\ materias' = SinIds(materias, ids)
                  /\ calificaciones' = OnDelete(calificaciones, nombradas)
                  /\ event' = [Evento("gestionar_materias_view_POST", "Done")
                                  EXCEPT !.ids = ids, !.gone = nombradas]
          /\ UNCHANGED <<estudiantes, seqCal, pc, loc, gdb, resto>>

\* The operations that write or delete rows, one request at a time; of the
\* upsert handlers, the one of /guardar-calificacion.
AdminNext ==
    \/ guardar_calificacion
    \/ add_calificacion
    \/ \E p \in Serial : eliminar_calificaciones_duplicadas(p)
    \/ \E p \in Serial : eliminar_materias_duplicadas(p)
    \/ \E p \in Serial : close_db_connection(p)
    \/ editar_calificacion_POST
    \/ inicializar_materias_para_alumno
    \/ delete_materia
    \/ eliminar_materia
    \/ eliminar_duplicados_POST
    \/ gestionar_materias_view_POST

\* The catalogue in which the graded course is a duplicate of an older row.
AdminInit == Init /\ materias = CatalogoA /\ matricula_unique

AdminSpec == AdminInit /\ [][AdminNext]_vars

\* ---------------------------------------------------------------- courses
\* A course row with all its columns.
MateriaDe(i, n, l, s) == [id |-> i, nombre |-> n, licenciatura |-> l, semestre |-> s]

\* SELECT 1 FROM materias WHERE nombre = %s AND licenciatura = %s AND semestre = %s
SelectMateria(M, n, l, s) ==
    {r \in M : r.nombre = n /\ r.licenciatura = l /\ r.semestre = s}

\* What db_query(..., one=True) hands back: rows[0] if one and rows else rows,
\* that is the first row when there is one and the empty list of fetchall()
\* when there is none.  It is never None.
ResultadoOne(rows) == IF rows = {} THEN "[]" ELSE "row"

\* verificar_materia_duplicada of src/app.py: resultado is not None
verificar_materia_duplicada(M, n, l, s) == ResultadoOne(SelectMateria(M, n, l, s)) # "None"

\* A form field left empty.
Falta == 0

\* What the form of /add_materia carries as semestre: nothing, the terms of
\* the catalogue, a term no course has yet.
FormSemestres == {Falta, 1, 2, 3}

\* POST /add_materia.  The existence check and the INSERT are two db_query
\* calls; the check answers "exists" for every identity, so the handler never
\* gets to its INSERT and is one statement long.
add_materia ==
    \E n \in {"Mat", ""}, s \in FormSemestres :
       LET antes == Cardinality(SelectMateria(materias, n, "Civil", s))
           ev(out) == [Evento("add_materia", out)
                          EXCEPT !.materia = s, !.npre = antes,
                                 !.ntot = Cardinality(materias)]
       IN /\ IF n = "" \/ s = Falta
             THEN /\ event' = [ev("Faltan") EXCEPT !.mensaje = "Error"]
                  /\ UNCHANGED <<materias, seqMat>>
             ELSE IF verificar_materia_duplicada(materias, n, "Civil", s)
             THEN /\ event' = [ev("Duplicado") EXCEPT !.mensaje = "Error"]
                  /\ UNCHANGED <<materias, seqMat>>
             ELSE /\ seqMat < MaxMatId
                  /\ seqMat' = seqMat + 1
                  /\ materias' = materias \cup {MateriaDe(seqMat + 1, n, "Civil", s)}
                  /\ event' = ev("Inserted")
          /\ UNCHANGED <<estudiantes, calificaciones, seqCal, pc, loc, gdb, foreign_keys,
                          seqEst, matricula_unique, cuentas, seqCuenta, sesion>>

\* The courses init_db.py inserts, as (nombre, licenciatura, semestre).
Semillas ==
    <<[nombre |-> "Matematicas I", licenciatura |-> "Civil", semestre |-> 1],
      [nombre |-> "Fisica I", licenciatura |-> "Civil", semestre |-> 1],
      [nombre |-> "Programacion I", licenciatura |-> "Informatica", semestre |-> 1]>>

\* python init_db.py: CREATE TABLE IF NOT EXISTS, then the three INSERTs of the
\* test courses, whatever the table holds, and one commit.
init_db ==
    /\ seqMat + Len(Semillas) <= MaxMatId
    /\ materias' = materias \cup
          {MateriaDe(seqMat + k, Semillas[k].nombre, Semillas[k].licenciatura,
                     Semillas[k].semestre) : k \in 1..Len(Semillas)}
    /\ seqMat' = seqMat + Len(Semillas)
    /\ event' = [Evento("init_db", "Done") EXCEPT !.ntot = Cardinality(materias)]
    /\ UNCHANGED <<estudiantes, calificaciones, seqCal, pc, loc, gdb, foreign_keys,
                    seqEst, matricula_unique, cuentas, seqCuenta, sesion>>

\* The requests that create and reconcile course rows, one at a time.
MateriasNext ==
    \/ add_materia
    \/ init_db
    \/ \E p \in Serial : eliminar_materias_duplicadas(p)
    \/ \E p \in Serial : close_db_connection(p)
    \/ guardar_calificacion

MateriasInit == Init /\ matricula_unique

MateriasSpec == MateriasInit /\ [][MateriasNext]_vars

\* ---------------------------------------------------------------- statement by statement
\* The same upsert handlers with every statement a step of its own, so that the
\* statements of two requests interleave.  The forms carry numeric scores here;
\* a write still raises when it breaks an enforced foreign key.  The lookup of
\* request p:
Lookup(p, u, m, c, dice) ==
    /\ \E reg \in OneOf(SelectCalificacion(calificaciones, u, m)) :
          loc' = [loc EXCEPT ![p] = [NoLoc EXCEPT !.user_id = u, !.materia = m,
                                                  !.calificacion = c, !.registro = reg,
                                                  !.dice = dice]]
    /\ pc' = [pc EXCEPT ![p] = "write"]
    /\ UNCHANGED <<materias, estudiantes, calificaciones, seqCal, resto, event>>

\* POST /guardar-calificacion, db_query(SELECT id ..., one=True)
guardar_calificacion_lookup(p) ==
    /\ pc[p] = "idle"
    /\ \E u \in AlumnoIds, m \in FormMaterias, c \in Scores : Lookup(p, u, m, c, TRUE)
    /\ UNCHANGED gdb

\* POST /registrar-calificacion, db_query(SELECT id ..., one=True)
registrar_calificacion_lookup(p) ==
    /\ pc[p] = "idle"
    /\ \E u \in AlumnoIds, m \in FormMaterias, c \in Scores : Lookup(p, u, m, c, TRUE)
    /\ UNCHANGED gdb

\* POST /update_calificacion, db_query(SELECT id FROM estudiantes ..., one=True)
update_calificacion_alumno(p) ==
    /\ pc[p] = "idle"
    /\ \E n \in Nombres, m \in FormMaterias, c \in Scores :
       \E alumno \in OneOf(SelectAlumno(estudiantes, n, "Civil", 1)) :
          IF alumno = None
          THEN /\ event' = [NoEvent EXCEPT !.op = "recordGrade", !.outcome = "NotFound"]
               /\ UNCHANGED <<pc, loc>>
          ELSE /\ pc' = [pc EXCEPT ![p] = "alumno"]
               /\ loc' = [loc EXCEPT ![p] = [NoLoc EXCEPT !.user_id = alumno, !.materia = m,
                                                          !.calificacion = c]]
               /\ UNCHANGED event
    /\ UNCHANGED <<materias, estudiantes, calificaciones, seqCal, gdb, resto>>

\* POST /update_calificacion, db_query(SELECT id FROM calificaciones ..., one=True)
update_calificacion_lookup(p) ==
    /\ pc[p] = "alumno"
    /\ Lookup(p, loc[p].user_id, loc[p].materia, loc[p].calificacion, FALSE)
    /\ UNCHANGED gdb

\* materias_util.actualizar_calificacion: get_db_connection() and the SELECT
actualizar_calificacion_lookup(p) ==
    /\ pc[p] = "idle"
    /\ \/ /\ gdb[p] = "closed"
          /\ event' = Failed(FALSE)
          /\ UNCHANGED <<materias, estudiantes, calificaciones, seqCal, pc, loc, gdb,
                          resto>>
       \/ /\ gdb[p] = "absent"
          /\ gdb' = [gdb EXCEPT ![p] = "open"]
          /\ \E u \in AlumnoIds, m \in FormMaterias, c \in Scores : Lookup(p, u, m, c, FALSE)

\* The UPDATE or the INSERT of request p, its commit and its return (and, in
\* materias_util, the conn.close() of the finally clause).
upsert_write(p) ==
    LET l == loc[p]
        r == Upsert(calificaciones, seqCal, l.registro, l.user_id, l.materia, l.calificacion,
                    References(foreign_keys, materias, estudiantes, l.user_id, l.materia))
    IN /\ pc[p] = "write"
       /\ r.seq <= MaxCalId
       /\ calificaciones' = r.cal
       /\ seqCal' = r.seq
       /\ event' = IF r.outcome = "Error" THEN Failed(gdb[p] # "open")
                   ELSE UpsertEvent(calificaciones, l.user_id, l.materia,
                                    l.calificacion, l.registro, r.outcome, l.dice)
       /\ pc' = [pc EXCEPT ![p] = "idle"]
       /\ loc' = [loc EXCEPT ![p] = NoLoc]
       /\ gdb' = [gdb EXCEPT ![p] = IF @ = "open" THEN "closed" ELSE @]
       /\ UNCHANGED <<materias, estudiantes, resto>>

RaceNext ==
    \/ \E p \in Procs : guardar_calificacion_lookup(p)
    \/ \E p \in Procs : registrar_calificacion_lookup(p)
    \/ \E p \in Procs : update_calificacion_alumno(p)
    \/ \E p \in Procs : update_calificacion_lookup(p)
    \/ \E p \in Procs : actualizar_calificacion_lookup(p)
    \/ \E p \in Procs : upsert_write(p)
    \/ \E p \in Procs : close_db_connection(p)

\* Requests overlap: between two statements of one request any statement of
\* another request may run.
RaceInit == Init /\ materias = CatalogoB /\ matricula_unique

RaceSpec == RaceInit /\ [][RaceNext]_vars

\* ---------------------------------------------------------------- materias_util in one context
\* A read of materias_util in request context p: get_db_connection(), one
\* SELECT, and conn.close() in the finally clause.  The connection stays in g.
LecturaUtil(p, op, rows) ==
    /\ IF gdb[p] = "closed"
       THEN event' = Evento(op, "Error")
       ELSE event' = [Evento(op, "Done") EXCEPT !.rows = rows]
    /\ gdb' = [gdb EXCEPT ![p] = "closed"]
    /\ UNCHANGED <<materias, estudiantes, calificaciones, seqCal, pc, loc, resto>>

\* materias_util.verificar_materia_duplicada(nombre, licenciatura, semestre)
verificar_materia_duplicada_util(p) ==
    \E s \in {1, 2, 3} :
       LecturaUtil(p, "verificar_materia_duplicada",
                   {r.id : r \in SelectMateria(materias, "Mat", "Civil", s)})

\* materias_util.obtener_calificaciones(user_id): SELECT ... FROM calificaciones c
\* JOIN materias m ON c.materia = m.id WHERE c.user_id = ?
obtener_calificaciones(p) ==
    \E u \in AlumnoIds :
       LecturaUtil(p, "obtener_calificaciones",
                   {c.id : c \in {x \in calificaciones :
                                     x.user_id = u /\ \E m \in materias : m.id = x.materia}})

\* The calls of materias_util made in one request context, and its teardown.
UtilNext ==
    \/ \E p \in Serial : actualizar_calificacion(p)
    \/ \E p \in Serial : verificar_materia_duplicada_util(p)
    \/ \E p \in Serial : eliminar_materias_duplicadas(p)
    \/ \E p \in Serial : eliminar_calificaciones_duplicadas(p)
    \/ \E p \in Serial : obtener_calificaciones(p)
    \/ \E p \in Serial : close_db_connection(p)

UtilInit == Init /\ matricula_unique

UtilSpec == UtilInit /\ [][UtilNext]_vars

\* ---------------------------------------------------------------- students
\* A student row with all its columns.
EstudianteDe(i, n, mat, s) ==
    [id |-> i, nombre |-> n, matricula |-> mat, licenciatura |-> "Civil", semestre |-> s]

\* SELECT * FROM estudiantes WHERE matricula = %s
SelectMatricula(E, mat) == {r \in E : r.matricula = mat}

\* UPDATE estudiantes SET nombre = %s, licenciatura = %s, semestre = %s
\* WHERE matricula = %s
UpdateEstudiante(E, n, s, mat) ==
    {IF r.matricula = mat THEN [r EXCEPT !.nombre = n, !.licenciatura = "Civil",
                                        !.semestre = s]
     ELSE r : r \in E}

\* The enrollment numbers and terms the form of /datos_alumnos carries.
FormMatriculas == {1, 2}

FormSemestresAlumno == {1, 2}

\* POST /datos_alumnos, db_query(SELECT * ... WHERE matricula, one=True)
datos_alumnos_lookup(p) ==
    /\ pc[p] = "idle"
    /\ \E n \in Nombres, mat \in FormMatriculas, s \in FormSemestresAlumno :
       \E reg \in OneOf(SelectMatricula(estudiantes, mat)) :
          loc' = [loc EXCEPT ![p] = [NoLoc EXCEPT !.nombre = n, !.matricula = mat,
                                                  !.semestre = s, !.registro = reg]]
    /\ pc' = [pc EXCEPT ![p] = "alumno_write"]
    /\ UNCHANGED <<materias, estudiantes, calificaciones, seqCal, gdb, resto, event>>

\* POST /datos_alumnos, the UPDATE or the INSERT, its commit and the redirect.
\* The INSERT raises when matricula is UNIQUE and a row has the number.
datos_alumnos_write(p) ==
    LET l == loc[p]
        ev(out) == [Evento("datos_alumnos", out)
                       EXCEPT !.registro = l.registro, !.user_id = l.matricula,
                              !.npre = Cardinality(SelectMatricula(estudiantes, l.matricula)),
                              !.ntot = Cardinality(estudiantes)]
    IN /\ pc[p] = "alumno_write"
       /\ IF l.registro # None
          THEN /\ estudiantes' = UpdateEstudiante(estudiantes, l.nombre, l.semestre,
                                                  l.matricula)
               /\ event' = [ev("Updated") EXCEPT !.mensaje = "Updated"]
               /\ UNCHANGED seqEst
          ELSE IF matricula_unique /\ SelectMatricula(estudiantes, l.matricula) # {}
          THEN /\ event' = [ev("Error") EXCEPT !.mensaje = "Error", !.sin_cerrar = 1]
               /\ UNCHANGED <<estudiantes, seqEst>>
          ELSE /\ seqEst < MaxEstId
               /\ seqEst' = seqEst + 1
               /\ estudiantes' = estudiantes \cup
                     {EstudianteDe(seqEst + 1, l.nombre, l.matricula, l.semestre)}
               /\ event' = [ev("Inserted") EXCEPT !.mensaje = "Inserted"]
       /\ pc' = [pc EXCEPT ![p] = "idle"]
       /\ loc' = [loc EXCEPT ![p] = NoLoc]
       /\ UNCHANGED <<materias, calificaciones, seqCal, gdb, foreign_keys, seqMat,
                       matricula_unique, cuentas, seqCuenta, sesion>>

EstudiantesNext ==
    \/ \E p \in Procs : datos_alumnos_lookup(p)
    \/ \E p \in Procs : datos_alumnos_write(p)

EstudiantesInit == Init /\ materias = CatalogoB /\ ~ foreign_keys

EstudiantesSpec == EstudiantesInit /\ [][EstudiantesNext]_vars

\* ---------------------------------------------------------------- resolver among writers
\* A request that is not inside an upsert runs the grade resolver: its one
\* DELETE statement is a step between the statements of the other requests.
eliminar_calificaciones_duplicadas_entre(p) ==
    /\ pc[p] = "idle"
    /\ eliminar_calificaciones_duplicadas(p)

ResolverRaceNext ==
    \/ \E p \in Procs : guardar_calificacion_lookup(p)
    \/ \E p \in Procs : actualizar_calificacion_lookup(p)
    \/ \E p \in Procs : upsert_write(p)
    \/ \E p \in Procs : eliminar_calificaciones_duplicadas_entre(p)
    \/ \E p \in Procs : close_db_connection(p)

ResolverRaceSpec == RaceInit /\ [][ResolverRaceNext]_vars

\* ---------------------------------------------------------------- deletions among writers
\* POST /delete_materia, the check of the id and db_query(DELETE FROM materias
\* WHERE id = %s, commit=True).  A DELETE that raises is caught by the handler,
\* which answers with the failure.
delete_materia_materias(p) ==
    /\ pc[p] = "idle"
    /\ \E id \in IdsMateria \cup {None} :
          IF id = None
          THEN /\ event' = [Evento("delete_materia", "Rejected") EXCEPT !.mensaje = "Error"]
               /\ UNCHANGED <<materias, pc, loc>>
          ELSE IF Referenced(foreign_keys, calificaciones, {r \in materias : r.id = id})
          THEN /\ event' = Raised("delete_materia")
               /\ UNCHANGED <<materias, pc, loc>>
          ELSE /\ materias' = SinIds(materias, {id})
               /\ pc' = [pc EXCEPT ![p] = "delete_calificaciones"]
               /\ loc' = [loc EXCEPT ![p] = [NoLoc EXCEPT !.materia = id]]
               /\ UNCHANGED event
    /\ UNCHANGED <<estudiantes, calificaciones, seqCal, gdb, resto>>

\* POST /delete_materia, db_query(DELETE FROM calificaciones WHERE materia = %s,
\* commit=True) and the answer {'success': True}.
delete_materia_calificaciones(p) ==
    /\ pc[p] = "delete_calificaciones"
    /\ calificaciones' = SinCalificacionesDeMateria(calificaciones, loc[p].materia)
    /\ event' = [Evento("delete_materia", "Done")
                    EXCEPT !.ids = {loc[p].materia}, !.materia = loc[p].materia]
    /\ pc' = [pc EXCEPT ![p] = "idle"]
    /\ loc' = [loc EXCEPT ![p] = NoLoc]
    /\ UNCHANGED <<materias, estudiantes, seqCal, gdb, resto>>

\* Upserts of /guardar-calificacion with the deleting requests of app.py
\* between their statements (the resolver between them is ResolverRaceSpec).
DeleteRaceNext ==
    \/ \E p \in Procs : guardar_calificacion_lookup(p)
    \/ \E p \in Procs : upsert_write(p)
    \/ \E p \in Procs : delete_materia_materias(p)
    \/ \E p \in Procs : delete_materia_calificaciones(p)
    \/ eliminar_duplicados_POST

DeleteRaceSpec == RaceInit /\ [][DeleteRaceNext]_vars

\* ---------------------------------------------------------------- preview, then submission
\* The identities that have a row: what GROUP BY nombre, licenciatura, semestre
\* of the course preview groups by.
Grupos(M) == {<<r.nombre, r.licenciatura, r.semestre>> : r \in M}

\* GET /gestionar_materias of operator p.  The ids the page lists are the rows
\* db_query(..., many=True) returned; the operator keeps them, and the groups
\* that had a row at that moment, until the form is sent.
gestionar_materias_view_preview(p) ==
    LET res == db_query(MateriasDuplicadas(materias), TRUE)
    IN /\ pc[p] = "idle"
       /\ pc' = [pc EXCEPT ![p] = "submit"]
       /\ loc' = [loc EXCEPT ![p] = [NoLoc EXCEPT !.ids = res.rows,
                                                  !.grupos = Grupos(materias)]]
       /\ event' = [NoEvent EXCEPT !.op = "gestionar_materias_view_GET",
                                   !.outcome = res.outcome, !.rows = res.rows]
       /\ UNCHANGED <<materias, estudiantes, calificaciones, seqCal, gdb, resto>>

\* POST /gestionar_materias of operator p with materias_eliminar = the ids of
\* the preview: one committed DELETE per id, nothing is read again.
gestionar_materias_view_submit(p) ==
    LET ids == loc[p].ids
        nombradas == {r \in materias : r.id \in ids}
        atadas == {r \in nombradas : Referenced(foreign_keys, calificaciones, {r})}
    IN /\ pc[p] = "submit"
       /\ IF atadas # {}
          THEN \E antes \in SUBSET (nombradas \ atadas) :
                  /\ materias' = materias \ antes
                  /\ calificaciones' = OnDelete(calificaciones, antes)
                  /\ event' = [Raised("gestionar_materias_view_POST")
                                  EXCEPT !.ids = ids, !.gone = antes]
          ELSE /\ materias' = SinIds(materias, ids)
               /\ calificaciones' = OnDelete(calificaciones, nombradas)
               /\ event' = [Evento("gestionar_materias_view_POST", "Done")
                               EXCEPT !.ids = ids, !.gone = nombradas]
       /\ pc' = [pc EXCEPT ![p] = "idle"]
       /\ loc' = [loc EXCEPT ![p] = NoLoc]
       /\ UNCHANGED <<estudiantes, seqCal, gdb, resto>>

\* Operators who preview and then submit, with the other requests that delete
\* courses, and the plain insert of a grade, served in between.
PreviewNext ==
    \/ \E p \in Procs : gestionar_materias_view_preview(p)
    \/ \E p \in Procs : gestionar_materias_view_submit(p)
    \/ eliminar_materia
    \/ delete_materia
    \/ gestionar_materias_view_POST
    \/ add_calificacion

PreviewInit == Init /\ matricula_unique

PreviewSpec == PreviewInit /\ [][PreviewNext]_vars

\* ---------------------------------------------------------------- accounts and sessions
\* The largest id an account table hands out.
MaxCuentaId == 2

\* What the forms carry: a user name or nothing, a password or nothing, a
\* type of account or something else.
FormUsuarios == {"root", "ana", ""}

FormContrasenas == {"pw", "x", ""}

FormTipos == {"docente", "administrativo", "otro"}

\* tabla = 'maestros' if tipo == 'docente' else 'administrativos' if tipo ==
\* 'administrativo' else None
TablaDe(tipo) ==
    IF tipo = "docente" THEN "maestros"
    ELSE IF tipo = "administrativo" THEN "administrativos" ELSE "None"

\* SELECT * FROM {tabla} WHERE usuario = %s
SelectUsuario(C, t, u) == {r \in C : r.tabla = t /\ r.usuario = u}

\* SELECT ... FROM {tabla} WHERE id = %s
SelectCuenta(C, t, i) == {r \in C : r.tabla = t /\ r.id = i}

\* What the account handlers leave alone.
sinCuentas ==
    <<materias, estudiantes, calificaciones, seqCal, pc, loc, gdb, foreign_keys,
      seqMat, seqEst, matricula_unique>>

\* The body of the two registration forms: the fields, the type, the user
\* name already taken, then the INSERT with the hashed password.
Registro(op, tipo, usuario, contrasena) ==
    IF tipo = "" \/ usuario = "" \/ contrasena = ""
    THEN /\ event' = [Evento(op, "Faltan") EXCEPT !.mensaje = "Error"]
         /\ UNCHANGED <<cuentas, seqCuenta>>
    ELSE IF TablaDe(tipo) = "None"
    THEN /\ event' = [Evento(op, "Rejected") EXCEPT !.mensaje = "Error"]
         /\ UNCHANGED <<cuentas, seqCuenta>>
    ELSE IF SelectUsuario(cuentas, TablaDe(tipo), usuario) # {}
    THEN /\ event' = [Evento(op, "Duplicado") EXCEPT !.mensaje = "Error"]
         /\ UNCHANGED <<cuentas, seqCuenta>>
    ELSE /\ seqCuenta[TablaDe(tipo)] < MaxCuentaId
         /\ seqCuenta' = [seqCuenta EXCEPT ![TablaDe(tipo)] = @ + 1]
         /\ cuentas' = cuentas \cup {Cuenta(TablaDe(tipo), seqCuenta[TablaDe(tipo)] + 1,
                                            usuario, generate_password_hash(contrasena))}
         /\ event' = Evento(op, "Inserted")

\* POST /registrar_usuario
registrar_usuario_POST ==
    /\ IF sesion.usuario_tipo # "admin"
       THEN /\ event' = [Evento("registrar_usuario", "Restricted") EXCEPT !.mensaje = "Error"]
            /\ UNCHANGED <<cuentas, seqCuenta>>
       ELSE \E tipo \in FormTipos, usuario \in FormUsuarios, contrasena \in FormContrasenas :
               Registro("registrar_usuario", tipo, usuario, contrasena)
    /\ UNCHANGED <<sinCuentas, sesion>>

\* POST /registro_usuario_publico
registrar_usuario_publico_POST ==
    /\ \E tipo \in FormTipos, usuario \in FormUsuarios, contrasena \in FormContrasenas :
          Registro("registrar_usuario_publico", tipo, usuario, contrasena)
    /\ UNCHANGED <<sinCuentas, sesion>>

\* GET /eliminar_usuario?tipo=...&user_id=...
eliminar_usuario ==
    /\ IF sesion.user_id = None \/ sesion.usuario_tipo # "admin"
       THEN /\ event' = [Evento("eliminar_usuario", "Restricted") EXCEPT !.mensaje = "Error"]
            /\ UNCHANGED cuentas
       ELSE \E tipo \in FormTipos, user_id \in 0..MaxCuentaId :
               IF TablaDe(tipo) = "None" \/ user_id = None
               THEN /\ event' = [Evento("eliminar_usuario", "Rejected")
                                    EXCEPT !.mensaje = "Error"]
                    /\ UNCHANGED cuentas
               ELSE IF SelectCuenta(cuentas, TablaDe(tipo), user_id) = {}
               THEN /\ event' = [Evento("eliminar_usuario", "NotFound")
                                    EXCEPT !.mensaje = "Error"]
                    /\ UNCHANGED cuentas
               ELSE /\ cuentas' = cuentas \ SelectCuenta(cuentas, TablaDe(tipo), user_id)
                    /\ event' = [Evento("eliminar_usuario", "Done") EXCEPT !.ids = {user_id}]
    /\ UNCHANGED <<sinCuentas, seqCuenta, sesion>>

\* UPDATE {tabla} SET usuario = %s[, contrasena = %s] WHERE id = %s
UpdateCuenta(C, t, i, u, c) ==
    {IF r.tabla = t /\ r.id = i
     THEN [r EXCEPT !.usuario = u,
                    !.contrasena = IF c = "" THEN @ ELSE generate_password_hash(c)]
     ELSE r : r \in C}

\* POST /actualizar_usuario: the form is checked, the session is not.  The
\* UPDATE raises when the new name is taken in the table (usuario UNIQUE).
actualizar_usuario ==
    /\ \E tipo \in FormTipos, user_id \in 0..MaxCuentaId,
          nuevo_usuario \in FormUsuarios, nueva_contrasena \in FormContrasenas :
          IF TablaDe(tipo) = "None" \/ user_id = None \/ nuevo_usuario = ""
          THEN /\ event' = [Evento("actualizar_usuario", "Rejected") EXCEPT !.mensaje = "Error"]
               /\ UNCHANGED cuentas
          ELSE IF /\ SelectCuenta(cuentas, TablaDe(tipo), user_id) # {}
                  /\ \E r \in SelectUsuario(cuentas, TablaDe(tipo), nuevo_usuario) :
                        r.id # user_id
          THEN /\ event' = Raised("actualizar_usuario")
               /\ UNCHANGED cuentas
          ELSE /\ cuentas' = UpdateCuenta(cuentas, TablaDe(tipo), user_id,
                                          nuevo_usuario, nueva_contrasena)
               /\ event' = [Evento("actualizar_usuario", "Done") EXCEPT !.ids = {user_id}]
    /\ UNCHANGED <<sinCuentas, seqCuenta, sesion>>

\* POST /cambiar-contrasena: the account of the session, its table chosen by
\* the role, after the current password has been checked.
cambiar_contrasena_POST ==
    LET t == IF sesion.usuario_tipo = "docente" THEN "maestros" ELSE "administrativos"
        propia == SelectCuenta(cuentas, t, sesion.user_id)
    IN /\ IF sesion.user_id = None \/ sesion.usuario_tipo \notin {"docente", "admin"}
          THEN /\ event' = [Evento("cambiar_contrasena", "Restricted")
                               EXCEPT !.mensaje = "Error"]
               /\ UNCHANGED cuentas
          ELSE \E actual \in FormContrasenas, nueva \in FormContrasenas,
                  confirmar \in FormContrasenas :
                  IF ~ \E r \in propia : check_password_hash(r.contrasena, actual)
                  THEN /\ event' = [Evento("cambiar_contrasena", "Incorrecta")
                                       EXCEPT !.mensaje = "Error"]
                       /\ UNCHANGED cuentas
                  ELSE IF nueva # confirmar \/ nueva = ""
                  THEN /\ event' = [Evento("cambiar_contrasena", "Rejected")
                                       EXCEPT !.mensaje = "Error"]
                       /\ UNCHANGED cuentas
                  ELSE /\ cuentas' = {IF r \in propia
                                      THEN [r EXCEPT !.contrasena =
                                                        generate_password_hash(nueva)]
                                      ELSE r : r \in cuentas}
                       /\ event' = Evento("cambiar_contrasena", "Done")
       /\ UNCHANGED <<sinCuentas, seqCuenta, sesion>>

\* The body of the two login forms for accounts: the row of the user name,
\* the password against its hash, then the session keys.
LoginCuenta(op, t, rol) ==
    \E usuario \in FormUsuarios, contrasena \in FormContrasenas :
       \E r \in OneOf(SelectUsuario(cuentas, t, usuario)) :
          IF /\ r # None
             /\ \E x \in SelectCuenta(cuentas, t, r) :
                   check_password_hash(x.contrasena, contrasena)
          THEN /\ sesion' = [usuario_tipo |-> rol, user_id |-> r]
               /\ event' = [Evento(op, "Done") EXCEPT !.registro = r]
          ELSE /\ event' = [Evento(op, "Incorrectas") EXCEPT !.mensaje = "Error"]
               /\ UNCHANGED sesion

\* POST /login/admin
login_admin_POST ==
    /\ LoginCuenta("login_admin", "administrativos", "admin")
    /\ UNCHANGED <<sinCuentas, cuentas, seqCuenta>>

\* POST /login/docente
login_docente_POST ==
    /\ LoginCuenta("login_docente", "maestros", "docente")
    /\ UNCHANGED <<sinCuentas, cuentas, seqCuenta>>

\* GET /logout: session.clear()
logout ==
    /\ sesion' = NoSesion
    /\ event' = Evento("logout", "Done")
    /\ UNCHANGED <<sinCuentas, cuentas, seqCuenta>>

\* The requests of one client that read or write accounts and the session.
CuentasNext ==
    \/ registrar_usuario_POST
    \/ registrar_usuario_publico_POST
    \/ eliminar_usuario
    \/ actualizar_usuario
    \/ cambiar_contrasena_POST
    \/ login_admin_POST
    \/ login_docente_POST
    \/ logout

CuentasInit == Init /\ materias = CatalogoA /\ matricula_unique /\ foreign_keys

CuentasSpec == CuentasInit /\ [][CuentasNext]_vars

\* ================================================================ claims
\* The rows of the pair the last upsert was about.
PairRows == SelectCalificacion(calificaciones, event.user_id, event.materia)

\* The last step was an upsert that returned without error.
Recorded == event.op = "recordGrade" /\ event.outcome \in {"Updated", "Inserted"}

\* C1: with requests running one at a time, after a successful
\* recordGrade(studentId, courseId, score) exactly one grade row exists for the
\* pair and it holds the given score, whatever rows the pair had before.
C1_OneRowAfterUpsert ==
    Recorded =>
        /\ Cardinality(PairRows) = 1
        /\ \A r \in PairRows : r.calificacion = event.calificacion

\* C2: recordGrade on a pair without a grade row inserts; a read of the pair
\* right after it returns the given score and nothing else, from one row, the
\* row that carries the id the sequence has just handed out.
C2_InsertThenRead ==
    (Recorded /\ event.npre = 0) =>
        /\ event.outcome = "Inserted"
        /\ {r.calificacion : r \in PairRows} = {event.calificacion}
        /\ {r.id : r \in PairRows} = {seqCal}

\* An upsert inserted the first row of its pair into a table that had rows.
C2_Witness ==
    /\ Recorded
    /\ event.npre = 0
    /\ event.ntot >= 1
    /\ Cardinality(PairRows) = 1

\* C3: recordGrade on a pair that has a grade row sets the score of the row its
\* lookup found, keeps that row's id and pair, and adds no row: the pair and
\* the table have as many rows as before.
C3_UpdateInPlace ==
    (Recorded /\ event.npre >= 1) =>
        /\ event.outcome = "Updated"
        /\ \E r \in calificaciones :
              /\ r.id = event.registro
              /\ r.user_id = event.user_id
              /\ r.materia = event.materia
              /\ r.calificacion = event.calificacion
        /\ Cardinality(PairRows) = event.npre
        /\ Cardinality(calificaciones) = event.ntot

\* An upsert updated the one row of its pair, a row that was not the last one
\* created, to the score the other pair's row does not have.
C3_Witness ==
    /\ Recorded
    /\ event.outcome = "Updated"
    /\ event.npre = 1
    /\ event.registro < seqCal
    /\ \E r \in calificaciones \ PairRows : r.calificacion # event.calificacion

\* C4: the write of an upsert acts on what its lookup saw, not on the table as
\* it is: when the lookup found no row and the insert is one the engine
\* accepts, the write inserts a row for the pair and returns without error,
\* also when another request has inserted a row for the pair in between.
C4_InsertAfterStaleLookup ==
    [][\A p \in Procs :
          (/\ pc[p] = "write"
           /\ pc'[p] = "idle"
           /\ loc[p].registro = None
           /\ IsNumeric(loc[p].calificacion)
           /\ References(foreign_keys, materias, estudiantes, loc[p].user_id, loc[p].materia))
          => /\ event'.outcome = "Inserted"
             /\ Cardinality(SelectCalificacion(calificaciones', loc[p].user_id, loc[p].materia))
                  = Cardinality(SelectCalificacion(calificaciones, loc[p].user_id,
                                                   loc[p].materia)) + 1]_vars

\* Two upserts of one pair both looked up before either wrote: the second
\* insert has just returned and the pair has two rows.
C4_Witness ==
    /\ event.op = "recordGrade"
    /\ event.outcome = "Inserted"
    /\ event.registro = None
    /\ event.npre = 1
    /\ Cardinality(PairRows) = 2

\* The rows of T with the course identity of r / the pair of r.
MismaMateria(T, r) ==
    {x \in T : x.nombre = r.nombre /\ x.licenciatura = r.licenciatura
               /\ x.semestre = r.semestre}

MismoPar(T, r) == {x \in T : x.user_id = r.user_id /\ x.materia = r.materia}

\* The last step was a completed run of the resolver op.
Resolved(op) == event.op = op /\ event.outcome = "Done"

\* C5: after a completed resolveDuplicates, every group that had a row has
\* exactly one row, the one with the smallest id the group had.
C5_LowestIdSurvives ==
    /\ Resolved("eliminar_materias_duplicadas") =>
          \A r \in materias \cup event.gone :
             \E k \in MismaMateria(materias \cup event.gone, r) :
                /\ \A x \in MismaMateria(materias \cup event.gone, r) : k.id <= x.id
                /\ MismaMateria(materias, r) = {k}
    /\ Resolved("eliminar_calificaciones_duplicadas") =>
          \A r \in calificaciones \cup event.gone :
             \E k \in MismoPar(calificaciones \cup event.gone, r) :
                /\ \A x \in MismoPar(calificaciones \cup event.gone, r) : k.id <= x.id
                /\ MismoPar(calificaciones, r) = {k}

\* The course resolver has removed the rows 3 and 4 of a group whose rows were
\* 1, 3 and 4, and left the course created between them.
C5_Witness ==
    /\ Resolved("eliminar_materias_duplicadas")
    /\ {g.id : g \in event.gone} = {3, 4}
    /\ {r.id : r \in materias} = {1, 2}

\* The resolvers.
Resolvers == {"eliminar_materias_duplicadas", "eliminar_calificaciones_duplicadas"}

\* C6: a run of resolveDuplicates that comes right after a completed run of
\* the same resolver removes no row.
C6_SecondRunRemovesNothing ==
    (event.op \in Resolvers /\ event.prevGone >= 0) => event.gone = {}

\* A second run has completed after a first run that removed two rows.
C6_Witness ==
    /\ event.op \in Resolvers
    /\ event.outcome = "Done"
    /\ event.prevGone = 2
    /\ event.gone = {}

\* C7: a completed resolveDuplicates (a step that takes a connection, ends
\* with it closed and returns) removes rows and does nothing else: the
\* rows that remain are rows that were there, column for column, and the other
\* tables are as they were.
C7_OnlyDeletes ==
    [][\A p \in Serial :
          (gdb[p] = "absent" /\ gdb'[p] = "closed" /\ event'.outcome = "Done")
          => /\ event'.op = "eliminar_calificaciones_duplicadas"
                   => /\ calificaciones' \subseteq calificaciones
                      /\ event'.gone = calificaciones \ calificaciones'
                      /\ materias' = materias
                      /\ estudiantes' = estudiantes
             /\ event'.op = "eliminar_materias_duplicadas"
                   => /\ materias' \subseteq materias
                      /\ event'.gone = materias \ materias'
                      /\ calificaciones' = calificaciones
                      /\ estudiantes' = estudiantes]_vars

\* Three grade rows of one pair, the first with a score the others do not all
\* share: the resolver has removed rows 2 and 3 and row 1 has its own score.
C7_Witness ==
    /\ Resolved("eliminar_calificaciones_duplicadas")
    /\ {g.id : g \in event.gone} = {2, 3}
    /\ \E r \in calificaciones :
          /\ r.id = 1
          /\ \A g \in event.gone : g.user_id = r.user_id /\ g.materia = r.materia
          /\ \E g \in event.gone : g.calificacion > r.calificacion

\* The previews of the duplicate rows.
PreviewsMaterias == {"gestionar_materias_view_GET", "gestion_materias"}

\* The ids of the rows of groups with more than one member.
EnGrupoMateria == {r.id : r \in {x \in materias : Cardinality(MismaMateria(materias, x)) > 1}}

EnGrupoPar ==
    {r.id : r \in {x \in calificaciones : Cardinality(MismoPar(calificaciones, x)) > 1}}

\* C8: a preview returns every row of every group with more than one member,
\* the lowest-id row of the group included.
C8_PreviewListsWholeGroups ==
    /\ event.op \in PreviewsMaterias
          => event.outcome = "Done" /\ EnGrupoMateria \subseteq event.rows
    /\ event.op = "eliminar_duplicados_GET"
          => event.outcome = "Done" /\ EnGrupoPar \subseteq event.rows

\* C9: a preview returns the empty sequence exactly when no group has more
\* than one member, and never a row of a group of one, also when duplicate
\* grade rows reference a course or a student that is no longer there.
C9_PreviewEmptyIffNoDuplicates ==
    /\ event.op \in PreviewsMaterias
          => /\ (event.outcome = "Done" /\ event.rows = {}) <=> (EnGrupoMateria = {})
             /\ event.rows \subseteq EnGrupoMateria
    /\ event.op = "eliminar_duplicados_GET"
          => /\ (event.outcome = "Done" /\ event.rows = {}) <=> (EnGrupoPar = {})
             /\ event.rows \subseteq EnGrupoPar

\* C10: a successful recordGrade, alone or with its statements interleaved
\* with those of other recordGrade calls, changes one grade row or adds one
\* grade row, and changes nothing else: the other grade rows, the courses and
\* the students are as they were.
C10_OneRowMutation ==
    [][\A p \in Procs :
          (pc[p] = "write" /\ pc'[p] = "idle" /\ event'.outcome \in {"Updated", "Inserted"})
          => /\ materias' = materias
             /\ estudiantes' = estudiantes
             /\ event'.outcome = "Inserted"
                   => /\ calificaciones \subseteq calificaciones'
                      /\ Cardinality(calificaciones' \ calificaciones) = 1
             /\ event'.outcome = "Updated"
                   => /\ \E r \in calificaciones :
                            /\ r.id = loc[p].registro
                            /\ calificaciones'
                                 = (calificaciones \ {r})
                                     \cup {[r EXCEPT !.calificacion = loc[p].calificacion]}]_vars

\* An upsert has updated one row of a pair that has another row with another
\* score, while the other pair has a row too.
C10_Witness ==
    /\ Recorded
    /\ event.outcome = "Updated"
    /\ event.npre = 2
    /\ event.ntot = 3
    /\ {r.calificacion : r \in PairRows} = Scores

\* C11: a recordGrade whose write fails reports the error to its caller and
\* leaves the grade table exactly as it was: no row added, none changed, no id
\* taken from the sequence (the write is not tried again).
C11_FailedWriteChangesNothing ==
    [][(event'.op = "recordGrade" /\ event'.outcome = "Error")
          => /\ calificaciones' = calificaciones
             /\ seqCal' = seqCal
             /\ event'.mensaje = "Error"]_vars

\* A write of db_query has just failed on a table that holds two grade rows.
C11_Witness ==
    /\ event.op = "recordGrade"
    /\ event.outcome = "Error"
    /\ event.sin_cerrar = 1
    /\ Cardinality(calificaciones) = 2

\* The ids of the grade rows a step creates, of those whose score it changes
\* and of those it removes.
Creadas == {r.id : r \in calificaciones'} \ {r.id : r \in calificaciones}

Cambiadas ==
    {r.id : r \in {x \in calificaciones :
                      \E y \in calificaciones' :
                         y.id = x.id /\ y.calificacion # x.calificacion}}

Borradas == {r.id : r \in calificaciones} \ {r.id : r \in calificaciones'}

\* C12 as the specification states it: a step that creates a grade row or
\* changes a score is a recordGrade.
C12_AsStated ==
    [][(Creadas # {} \/ Cambiadas # {}) => event'.op = "recordGrade"]_vars

\* C12: a grade row is created by recordGrade or by the plain insert of
\* /add_calificacion and by nothing else; a score is changed by recordGrade or
\* by the edit of /editar_calificacion and by nothing else.
C12_WritersOfGrades ==
    [][/\ Creadas # {} => event'.op \in {"recordGrade", "add_calificacion"}
       /\ Cambiadas # {} => event'.op \in {"recordGrade", "editar_calificacion"}]_vars

\* The edit by id has just given one of the two rows of a pair another score
\* than the other row has.
C12_Witness ==
    /\ event.op = "editar_calificacion"
    /\ event.outcome = "Done"
    /\ \E r, s \in calificaciones :
          /\ r.id = event.registro
          /\ s.id # r.id
          /\ s.user_id = r.user_id /\ s.materia = r.materia
          /\ r.calificacion = event.calificacion
          /\ s.calificacion # r.calificacion

\* The resolvers and the selective deletions by id list.
ResolverOps == Resolvers \cup {"eliminar_duplicados_POST", "gestionar_materias_view_POST"}

\* C13 as the specification states it: a step that removes a course row or a
\* grade row is a run of the resolver, full or selective by id list.
C13_AsStated ==
    [][(Borradas # {} \/ materias \ materias' # {}) => event'.op \in ResolverOps]_vars

\* C13: recordGrade removes no row.  A grade row is removed by the grade
\* resolver, by the selective deletion of grades or by /delete_materia and by
\* nothing else; a course row is removed by the course resolver, by the
\* selective deletion of courses, by /delete_materia or by /eliminar_materia
\* and by nothing else.
C13_Deleters ==
    [][/\ Borradas # {}
             => event'.op \in {"eliminar_calificaciones_duplicadas",
                               "eliminar_duplicados_POST", "delete_materia"}
       /\ materias \ materias' # {}
             => event'.op \in {"eliminar_materias_duplicadas",
                               "gestionar_materias_view_POST",
                               "delete_materia", "eliminar_materia"}
       /\ event'.op = "recordGrade" => Borradas = {} /\ materias' = materias]_vars

\* /delete_materia has removed a course row and every grade row there was, two
\* of them at least.
C13_Witness ==
    /\ event.op = "delete_materia"
    /\ event.outcome = "Done"
    /\ event.gone # {}
    /\ seqCal >= 2
    /\ calificaciones = {}

\* The removals of duplicate course rows: the resolver and the selective
\* deletion of courses.
ResolverMaterias == {"eliminar_materias_duplicadas", "gestionar_materias_view_POST"}

\* The grade rows that reference no course row.
Huerfanas == {c \in calificaciones : ~ \E m \in materias : m.id = c.materia}

\* C14: the removal of duplicate course rows does not cascade: a step of the
\* course resolver or of the selective deletion of courses that removes course
\* rows leaves every grade row in place with its reference, its student and
\* its score, the rows that reference a removed course included.
C14_NoCascade ==
    [][(event'.op \in ResolverMaterias /\ materias' # materias)
          => /\ calificaciones' = calificaciones
             /\ \A g \in materias \ materias' :
                   \A c \in calificaciones :
                      c.materia = g.id => c \in calificaciones' /\ c \in Huerfanas']_vars

\* The course resolver has removed the course row a grade row references: the
\* grade row is there and its course is not.
C14_Witness ==
    /\ Resolved("eliminar_materias_duplicadas")
    /\ \E c \in Huerfanas : \E g \in event.gone : c.materia = g.id

\* C15: every operation releases the connections it acquired on every exit
\* path: after a completed operation, successful or failed, none of the
\* connections it opened is still open.
C15_NoConnectionLeftOpen ==
    /\ event.sin_cerrar = 0
    /\ \A p \in Serial : gdb[p] # "open"

\* C16: calls are independent: a run of the grade resolver, which takes no
\* argument and breaks no key, completes whatever call came before it, also a
\* call made in the same request context.
C16_CallsIndependent ==
    event.op = "eliminar_calificaciones_duplicadas" => event.outcome = "Done"

\* The rows of T that have the lowest id of their pair.
Canonicas(T) == {r \in T : \A x \in MismoPar(T, r) : r.id <= x.id}

\* C17: with the statements of recordGrade calls and runs of the grade
\* resolver interleaved in any order, no step removes the lowest-id row of a
\* pair; a completed run of the resolver removes only rows that leave a row of
\* their pair with a lower id behind; a successful recordGrade returns with a
\* row of its pair in the table; and a run that completes while no recordGrade
\* is in flight leaves exactly one row for every pair that had a row.
C17_ResolverAmongWriters ==
    [][/\ \A r \in Canonicas(calificaciones) :
             \E y \in calificaciones' :
                y.id = r.id /\ y.user_id = r.user_id /\ y.materia = r.materia
       /\ \A p \in Procs :
             (gdb[p] = "absent" /\ gdb'[p] = "closed")
             => /\ calificaciones' \subseteq calificaciones
                /\ \A g \in calificaciones \ calificaciones' :
                      \E k \in MismoPar(calificaciones', g) : k.id < g.id
                /\ (\A q \in Procs : pc[q] = "idle")
                      => \A r \in calificaciones :
                            Cardinality(MismoPar(calificaciones', r)) = 1
       /\ \A p \in Procs :
             (pc[p] = "write" /\ pc'[p] = "idle"
              /\ event'.outcome \in {"Updated", "Inserted"})
             => SelectCalificacion(calificaciones', loc[p].user_id, loc[p].materia) # {}]_vars

\* The resolver has removed a row while a recordGrade whose lookup found that
\* row has not written yet.
C17_Witness ==
    /\ Resolved("eliminar_calificaciones_duplicadas")
    /\ \E p \in Procs :
          /\ pc[p] = "write"
          /\ \E g \in event.gone : g.id = loc[p].registro

\* C18 as the specification states it: every recordGrade that returns without
\* error tells its caller Inserted when its lookup found no row and Updated
\* when it found one.
C18_AsStated ==
    Recorded =>
        /\ event.mensaje = "Inserted" <=> event.registro = None
        /\ event.mensaje = "Updated" <=> event.registro # None

\* C18: a recordGrade that returns without error has inserted exactly when
\* its lookup found no row and updated exactly when it found one; the handlers
\* of /guardar-calificacion and /registrar-calificacion tell the caller which
\* of the two happened, /update_calificacion and actualizar_calificacion
\* return the same thing on both branches.
C18_BranchReported ==
    [][\A p \in Procs :
          (pc[p] = "write" /\ pc'[p] = "idle" /\ event'.outcome \in {"Updated", "Inserted"})
          => /\ event'.outcome = "Inserted" <=> loc[p].registro = None
             /\ event'.outcome = "Updated" <=> loc[p].registro # None
             /\ event'.mensaje = IF loc[p].dice THEN event'.outcome ELSE "none"]_vars

\* On an empty table a first recordGrade with score 80 has inserted row 1, and
\* a second one for the same pair with score 95 has just reported Updated: the
\* pair has one row, row 1, with score 95.
C18_Witness ==
    /\ Recorded
    /\ event.mensaje = "Updated"
    /\ event.calificacion = 95
    /\ event.registro = 1
    /\ seqCal = 1
    /\ calificaciones = {Calificacion(1, event.user_id, event.materia, 95)}

\* C19: a completed run of a resolver or of a selective deletion by id list
\* reports the number of rows it removed, also when an id of the list matches
\* no row.
C19_ReportsRowsRemoved ==
    (event.op \in ResolverOps /\ event.outcome = "Done")
        => event.cuenta = Cardinality(event.gone)

C21_DuplicatesAriseAndResolve ==
    /\ (event.op = "add_materia" /\ event.outcome = "Duplicado") => event.npre >= 1
    /\ (event.op = "init_db" /\ event.outcome = "Done")
          => Cardinality(materias) = event.ntot + Len(Semillas)
    /\ Resolved("eliminar_materias_duplicadas")
          => \A r \in materias : MismaMateria(materias, r) = {r}

\* C22: whatever the interleaving of registrations, no two student rows share
\* an enrollment number, and a registration for a number that has a row
\* updates instead of adding a row.
C22_MatriculaUnica ==
    /\ \A r, x \in estudiantes : r.matricula = x.matricula => r.id = x.id
    /\ (event.op = "datos_alumnos" /\ event.npre >= 1)
          => /\ event.outcome = "Updated"
             /\ Cardinality(estudiantes) = event.ntot

\* C23: in materias_util the connection a request context holds, the one
\* get_db_connection returns on the next call, is open and usable after any
\* sequence of calls made in that context, and no call fails for want of one.
C23_ConnectionOfContextIsOpen ==
    /\ \A p \in Serial : gdb[p] # "closed"
    /\ event.op \in {"verificar_materia_duplicada", "obtener_calificaciones",
                      "eliminar_calificaciones_duplicadas"}
          => event.outcome = "Done"

\* C25: with deleting requests between the statements of a recordGrade, a
\* recordGrade that reports success leaves a grade row of its pair with the
\* given score in the table at that moment.
C25_SuccessMeansStored ==
    [][\A p \in Procs :
          (pc[p] = "write" /\ pc'[p] = "idle" /\ event'.outcome \in {"Updated", "Inserted"})
          => \E r \in SelectCalificacion(calificaciones', loc[p].user_id, loc[p].materia) :
                r.calificacion = loc[p].calificacion]_vars

\* C24: add_materia inserts one course row when the three fields are given
\* and no row has the identity, and otherwise turns the request away and
\* leaves the table as it was.
C24_AddMateria ==
    event.op = "add_materia"
        => /\ (event.outcome # "Faltan" /\ event.npre = 0)
                 => /\ event.outcome = "Inserted"
                    /\ Cardinality(materias) = event.ntot + 1
           /\ (event.outcome = "Faltan" \/ event.npre >= 1)
                 => /\ event.outcome # "Inserted"
                    /\ Cardinality(materias) = event.ntot

\* C26: with requests one at a time, when a pair has several grade rows a
\* successful recordGrade(studentId, courseId, v) followed at once by a run of
\* the grade resolver leaves one row for the pair and that row holds v: the
\* row the lookup chose is the lowest-id row, the one the resolver keeps.
C26_UpsertThenResolve ==
    [][(/\ Recorded
        /\ event.npre >= 2
        /\ event'.op = "eliminar_calificaciones_duplicadas"
        /\ event'.outcome = "Done")
       => /\ Cardinality(SelectCalificacion(calificaciones', event.user_id, event.materia)) = 1
          /\ \A r \in SelectCalificacion(calificaciones', event.user_id, event.materia) :
                r.calificacion = event.calificacion]_vars

\* C27: deleting the ids a duplicate preview returns gives the table a full
\* run of the resolver gives from the same state: the grade preview and the
\* grade resolver, the course preview and the course resolver, also when
\* duplicate grade rows name a course or a student that has no row.
C27_PreviewedIdsAreWhatResolverRemoves ==
    /\ event.op = "eliminar_duplicados_GET"
          => SinIds(calificaciones, event.rows) = SinCalificacionesDuplicadas(calificaciones)
    /\ event.op = "gestionar_materias_view_GET"
          => SinIds(materias, event.rows) = SinMateriasDuplicadas(materias)

\* C28: when an operator submits the ids a preview returned, every identity
\* group that had a row when the preview ran still has a row when the
\* submission has been carried out, whatever deleting requests were served
\* between the two.
C28_GroupsSurviveSubmission ==
    [][\A p \in Procs :
          (pc[p] = "submit" /\ pc'[p] = "idle")
          => loc[p].grupos \subseteq Grupos(materias')]_vars

\* C30: an account row of maestros or administrativos is created, renamed,
\* given a new password by somebody else, or deleted only by a request whose
\* session holds the admin role (the holder of an account may change its own
\* password); and a session gets the admin role through a login_admin with
\* the matching password only and does not keep it past a logout.
C30_PropiaContrasena ==
    \E r \in cuentas, x \in cuentas' :
       /\ r.id = sesion.user_id
       /\ r.tabla = (IF sesion.usuario_tipo = "docente" THEN "maestros" ELSE "administrativos")
       /\ sesion.usuario_tipo \in {"docente", "admin"}
       /\ x = [r EXCEPT !.contrasena = x.contrasena]
       /\ cuentas' = (cuentas \ {r}) \cup {x}

C30_AccountsOnlyByAdmin ==
    [][/\ (cuentas' # cuentas /\ ~ C30_PropiaContrasena) => sesion.usuario_tipo = "admin"
       /\ (sesion'.usuario_tipo = "admin" /\ sesion.usuario_tipo # "admin")
             => (event'.op = "login_admin" /\ event'.outcome = "Done")
       /\ event'.op = "logout" => sesion'.usuario_tipo # "admin"]_vars

====
